---- MODULE Spec2Model ----
(***************************************************************************)
(* Model of the forge npm wrapper: install.js (the Installer, run as a     *)
(* package lifecycle hook) and forge.js (the Launcher, run on every        *)
(* invocation of the `forge` command).                                     *)
(*                                                                         *)
(* Optional values (JavaScript null / undefined) are sequences of length   *)
(* 0 or 1.  File names are sequences of the tokens that '-' separates, so  *)
(* that String.includes('-gnu') and String.replace('-gnu', '-musl') are    *)
(* modelled by what they do to the name.                                   *)
(***************************************************************************)
EXTENDS Integers, Sequences, FiniteSets, TLC

\* ------------------------------------------------------------------ bounds
MaxRuns == 2          \* Installer runs in one behaviour
MaxFsChanges == 1     \* changes of the packaged binaries during one run
MaxSigints == 2       \* interrupts delivered to one Launcher invocation
MaxMajor == 3         \* largest major number of a reported libc version
MaxTens == 4          \* largest first digit of a two-digit minor number

\* ------------------------------------------------------- values and inputs
None == <<>>
Some(x) == <<x>>

HostPlatforms == {"darwin", "linux", "win32", "freebsd"}
HostArchs == {"x64", "arm64", "ia32"}

\* The digits after the dot of a version string, as the regex \d+ takes them.
MinorDigits == {<<d>> : d \in 0..9} \cup {<<t, d>> : t \in 0..MaxTens, d \in 0..9}
Versions == [major : 1..MaxMajor, minor : MinorDigits]

\* What `ldd --version` and `getconf GNU_LIBC_VERSION` can print:
\*   spawned  the process ran and its output is a string
\*   musl     the output contains "musl" (any letter case)
\*   match    the first match of /\b(\d+\.\d+)\b/ in the output, if any
\*   getconf  the first match in getconf's output, if any (None also when
\*            getconf is missing)
DetectInputs ==
       {[spawned |-> FALSE, musl |-> FALSE, match |-> None, getconf |-> None]}
  \cup {[spawned |-> TRUE, musl |-> TRUE, match |-> m, getconf |-> None] :
           m \in {None, Some([major |-> 1, minor |-> <<2>>]),
                        Some([major |-> 2, minor |-> <<3, 5>>])}}
  \cup {[spawned |-> TRUE, musl |-> FALSE, match |-> Some(v), getconf |-> None] :
           v \in Versions}
  \cup {[spawned |-> TRUE, musl |-> FALSE, match |-> None, getconf |-> g] :
           g \in {None, Some([major |-> 2, minor |-> <<9>>]),
                        Some([major |-> 2, minor |-> <<3, 1>>]),
                        Some([major |-> 2, minor |-> <<3, 5>>])}}

\* Results of running `<binary> --version` (spawnSync result):
\*   "ok"     status 0
\*   "glibc"  status not 0 and stderr contains "GLIBC_"
\*   "fail"   status not 0 (or null after the timeout), no such marker
TestOutcomes == {"ok", "glibc", "fail"}

\* Results of copyFileSync followed by chmodSync.
CopyOutcomes == {"ok", "copyFail", "chmodFail"}

\* Exit codes a child process can report, and the signals that can kill it.
ChildCodes == {0, 1, 42}
ChildSignals == {"SIGINT", "SIGKILL"}

\* --------------------------------------------------------------- install.js

PLATFORMS ==
  [darwin |-> [x64   |-> <<"forge", "x86_64", "apple", "darwin">>,
               arm64 |-> <<"forge", "aarch64", "apple", "darwin">>],
   linux  |-> [x64   |-> [gnu  |-> <<"forge", "x86_64", "unknown", "linux", "gnu">>,
                          musl |-> <<"forge", "x86_64", "unknown", "linux", "musl">>],
               arm64 |-> [gnu  |-> <<"forge", "aarch64", "unknown", "linux", "gnu">>,
                          musl |-> <<"forge", "aarch64", "unknown", "linux", "musl">>]],
   win32  |-> [x64   |-> <<"forge", "x86_64", "pc", "windows", "msvc.exe">>,
               arm64 |-> <<"forge", "aarch64", "pc", "windows", "msvc.exe">>]]

\* The file names bin/<platform>/<arch>/ can hold for a host.
CatalogNames(p, a) ==
  IF p \notin DOMAIN PLATFORMS THEN {}
  ELSE IF a \notin DOMAIN PLATFORMS[p] THEN {}
  ELSE IF p = "linux" THEN {PLATFORMS[p][a][l] : l \in DOMAIN PLATFORMS[p][a]}
  ELSE {PLATFORMS[p][a]}

RECURSIVE Pow10(_)
Pow10(n) == IF n = 0 THEN 1 ELSE 10 * Pow10(n - 1)

RECURSIVE DigitsValue(_)
DigitsValue(ds) ==
  IF ds = <<>> THEN 0
  ELSE 10 * DigitsValue(SubSeq(ds, 1, Len(ds) - 1)) + ds[Len(ds)]

\* parseFloat("<major>.<minor>") as the exact fraction num / den.
parseFloat(v) ==
  [num |-> v.major * Pow10(Len(v.minor)) + DigitsValue(v.minor),
   den |-> Pow10(Len(v.minor))]

requiredVersion == [num |-> 232, den |-> 100]

isGlibcVersionSufficient(version) ==
  IF version = None THEN FALSE
  ELSE LET currentVersion == parseFloat(version[1])
       IN  currentVersion.num * requiredVersion.den
             >= requiredVersion.num * currentVersion.den

getGlibcVersion(out) ==
  IF ~out.spawned THEN [type |-> "unknown", version |-> None]
  ELSE IF out.musl THEN [type |-> "musl", version |-> None]
  ELSE IF out.match # None THEN [type |-> "gnu", version |-> out.match]
  ELSE IF out.getconf # None THEN [type |-> "gnu", version |-> out.getconf]
  ELSE [type |-> "gnu", version |-> None]

detectLibcType(libcInfo) ==
  IF \/ libcInfo.type = "musl"
     \/ libcInfo.type = "gnu" /\ ~isGlibcVersionSufficient(libcInfo.version)
  THEN "musl"
  ELSE "gnu"

\* binaryName.includes('-gnu'): a token "gnu" that follows a '-'.
includesGnu(name) == \E i \in 2..Len(name) : name[i] = "gnu"

\* binaryName.replace('-gnu', '-musl'): the first occurrence only.
replaceGnu(name) ==
  IF ~includesGnu(name) THEN name
  ELSE LET i == CHOOSE k \in 2..Len(name) :
                  name[k] = "gnu" /\ \A j \in 2..(k - 1) : name[j] # "gnu"
       IN  [name EXCEPT ![i] = "musl"]

testBinary_AlwaysTrue(result) == TRUE

\* testBinary: true exactly when the spawned binary reported status 0.
testBinary(result) == result = "ok"


\* Lines 179-199: the musl binary wins when it is packaged; otherwise the
\* detected libc type picks the catalog entry.
selectBinary_Detected(pkg, p, a, lt) ==
  [libcType |-> lt, binaryName |-> PLATFORMS[p][a][lt]]

selectBinary_GnuFirst(pkg, p, a, lt) ==
  IF PLATFORMS[p][a]["gnu"] \in pkg
  THEN [libcType |-> lt, binaryName |-> PLATFORMS[p][a]["gnu"]]
  ELSE [libcType |-> lt, binaryName |-> PLATFORMS[p][a]["musl"]]

selectBinary(pkg, p, a, lt) ==
  LET muslBinaryName == PLATFORMS[p][a]["musl"]
  IN  IF muslBinaryName \in pkg
      THEN [libcType |-> lt, binaryName |-> muslBinaryName]
      ELSE LET lt2 == IF lt \notin DOMAIN PLATFORMS[p][a]
                      THEN (IF lt = "gnu" THEN "musl" ELSE "gnu")
                      ELSE lt
           IN  [libcType |-> lt2, binaryName |-> PLATFORMS[p][a][lt2]]

alternativeBinary_None(pkg, p, a, lt, name) == name

\* Lines 202-212: when the chosen file is missing, the other libc's file is
\* taken if it is there.
alternativeBinary(pkg, p, a, lt, name) ==
  IF name \notin pkg
  THEN LET alternativeLibc == IF lt = "gnu" THEN "musl" ELSE "gnu"
           alternativeBinaryName == PLATFORMS[p][a][alternativeLibc]
       IN  IF alternativeBinaryName \in pkg THEN alternativeBinaryName ELSE name
  ELSE name

\* -------------------------------------------------------------- forge.js

exitCode_Zero(code) == 0

\* Line 39: `code || 0`, code being null when a signal killed the child.
exitCode(code) == IF code = None \/ code = Some(0) THEN 0 ELSE code[1]

\* ------------------------------------------------------------------- state
VARIABLES
  platform,     \* process.platform of the host
  arch,         \* process.arch of the host
  runsOn,       \* Linux: what running each packaged binary on this host gives
  packaged,     \* names of the files in bin/<platform>/<arch>/
  artifact,     \* the file at <package root>/forge[.exe]: None or
                \* Some([name, run]), the file copied and the run that did it
  ipc,          \* position of the Installer
  run,          \* number of Installer runs started
  forceLibc,    \* process.env.FORCE_LIBC of the Installer process
  libcInfo,     \* detectLibcType: const libcInfo, gone once install() goes on
  libcType,     \* install: let libcType
  binaryName,   \* install: let binaryName (binaryPath is its path)
  copies,       \* this run: names copied to the artifact path, in order
  checks,       \* this run: execution checks made, in order
  copyResult,   \* this run: outcome of the last copyFileSync/chmodSync
  instExit,     \* exit codes of the finished Installer runs, in order
  pkgChanged,   \* this run: the packaged files changed while it ran
  fsChanges,    \* this run: number of such changes
  lpc,          \* position of the Launcher
  child,        \* the spawned process: "none", "running" or "terminated"
  childExit,    \* the child's exit event: [code, signal]
  spawned,      \* the artifact the Launcher spawned, None if it spawned none
  launcherExit, \* exit code of the Launcher, None while it runs
  received,     \* SIGINTs the Launcher received in this invocation
  forwarded,    \* forgeProcess.kill('SIGINT') calls in this invocation
  pending       \* SIGINTs delivered to the child and not yet handled by it

host == <<platform, arch, runsOn>>
inst == <<ipc, run, forceLibc, libcInfo, libcType, binaryName, copies, checks,
          copyResult, instExit, pkgChanged, fsChanges>>
launch == <<lpc, child, childExit, spawned, launcherExit, received, forwarded,
            pending>>
vars == <<host, packaged, artifact, inst, launch>>

NoLibcInfo == [type |-> "", version |-> None]
NoExit == [code |-> None, signal |-> None]

Init ==
  /\ platform \in HostPlatforms
  /\ arch \in HostArchs
  /\ packaged \in SUBSET CatalogNames(platform, arch)
  /\ runsOn \in [IF platform = "linux" THEN CatalogNames(platform, arch) ELSE {}
                   -> TestOutcomes]
  /\ artifact = None
  /\ ipc = "idle"
  /\ run = 0
  /\ forceLibc = ""
  /\ libcInfo = NoLibcInfo
  /\ libcType = ""
  /\ binaryName = <<>>
  /\ copies = <<>>
  /\ checks = <<>>
  /\ copyResult = ""
  /\ instExit = <<>>
  /\ pkgChanged = FALSE
  /\ fsChanges = 0
  /\ lpc = "NotStarted"
  /\ child = "none"
  /\ childExit = NoExit
  /\ spawned = None
  /\ launcherExit = None
  /\ received = 0
  /\ forwarded = 0
  /\ pending = 0

\* process.exit(code) of the Installer, or its normal end (code 0).
InstallerExits(code) ==
  /\ ipc' = "idle"
  /\ instExit' = Append(instExit, code)


launcherIdle == lpc \in {"NotStarted", "Exited"}

\* install.js lines 282-289 and 153-176: the FORCE_MUSL override, then the
\* platform and architecture checks of install().  Installer runs come
\* before the Launcher's invocations.
InstallStart ==
  /\ ipc = "idle"
  /\ lpc = "NotStarted"
  /\ run < MaxRuns
  /\ run' = run + 1
  /\ \E forceMusl \in BOOLEAN :
       forceLibc' = IF forceMusl /\ platform = "linux" THEN "musl" ELSE ""
  /\ libcInfo' = NoLibcInfo
  /\ libcType' = ""
  /\ copies' = <<>>
  /\ checks' = <<>>
  /\ copyResult' = ""
  /\ pkgChanged' = FALSE
  /\ fsChanges' = 0
  /\ IF platform \notin DOMAIN PLATFORMS
     THEN /\ InstallerExits(1)
          /\ binaryName' = <<>>
     ELSE IF arch \notin DOMAIN PLATFORMS[platform]
     THEN /\ InstallerExits(1)
          /\ binaryName' = <<>>
     ELSE IF platform = "linux"
     THEN /\ ipc' = "detect"
          /\ binaryName' = <<>>
          /\ UNCHANGED instExit
     ELSE /\ ipc' = "checkExists"
          /\ binaryName' = PLATFORMS[platform][arch]
          /\ UNCHANGED instExit
  /\ UNCHANGED <<host, packaged, artifact, launch>>

\* install.js line 176 (detectLibcType, lines 58-73, getGlibcVersion, 10-44).
DetectLibc ==
  /\ ipc = "detect"
  /\ \E out \in DetectInputs :
       /\ libcInfo' = getGlibcVersion(out)
       /\ libcType' = detectLibcType(getGlibcVersion(out))
  /\ ipc' = "select"
  /\ UNCHANGED <<host, packaged, artifact, run, forceLibc, binaryName, copies,
                 checks, copyResult, instExit, pkgChanged, fsChanges, launch>>

\* install.js lines 178-199.
SelectMusl ==
  /\ ipc = "select"
  /\ LET sel == selectBinary(packaged, platform, arch, libcType)
     IN  /\ libcType' = sel.libcType
         /\ binaryName' = sel.binaryName
  /\ libcInfo' = NoLibcInfo
  /\ ipc' = "alternative"
  /\ UNCHANGED <<host, packaged, artifact, run, forceLibc, copies,
                 checks, copyResult, instExit, pkgChanged, fsChanges, launch>>

\* install.js lines 201-212.
CheckAlternative ==
  /\ ipc = "alternative"
  /\ binaryName' = alternativeBinary(packaged, platform, arch, libcType, binaryName)
  /\ ipc' = "checkExists"
  /\ UNCHANGED <<host, packaged, artifact, run, forceLibc, libcInfo, libcType,
                 copies, checks, copyResult, instExit, pkgChanged, fsChanges,
                 launch>>

\* install.js lines 218-223.
CheckBinaryExists ==
  /\ ipc = "checkExists"
  /\ IF binaryName \notin packaged
     THEN InstallerExits(1)
     ELSE ipc' = "copy" /\ UNCHANGED instExit
  /\ UNCHANGED <<host, packaged, artifact, run, forceLibc, libcInfo, libcType,
                 binaryName, copies, checks, copyResult, pkgChanged, fsChanges,
                 launch>>

\* The outcomes copyFileSync(source, targetPath) and chmodSync can have:
\* the copy throws when the source is gone, chmod is skipped on Windows.
copyOutcomes(source) ==
  IF source \notin packaged THEN {"copyFail"}
  ELSE IF platform = "win32" THEN {"ok", "copyFail"}
  ELSE CopyOutcomes

\* install.js lines 225-231 (and the catch of lines 266-270).
CopyBinary ==
  /\ ipc = "copy"
  /\ \E o \in copyOutcomes(binaryName) :
       /\ copyResult' = o
       /\ IF o = "copyFail"
          THEN UNCHANGED <<artifact, copies>>
          ELSE /\ artifact' = Some([name |-> binaryName, run |-> run])
               /\ copies' = Append(copies, binaryName)
       /\ IF o # "ok"
          THEN InstallerExits(1)
          ELSE IF platform = "linux"
          THEN ipc' = "test" /\ UNCHANGED instExit
          ELSE InstallerExits(0)
  /\ UNCHANGED <<host, packaged, run, forceLibc, libcInfo, libcType, binaryName,
                 checks, pkgChanged, fsChanges, launch>>

\* spawnSync(targetPath, ['--version']): the file at the artifact path runs.
runArtifact == runsOn[artifact[1].name]

\* install.js lines 233-238 and 257-261.
TestBinary ==
  /\ ipc = "test"
  /\ checks' = Append(checks, [name |-> artifact[1].name, result |-> runArtifact])
  /\ IF testBinary(runArtifact)
     THEN InstallerExits(0)
     ELSE IF includesGnu(binaryName)
     THEN ipc' = "retry" /\ UNCHANGED instExit
     ELSE InstallerExits(1)
  /\ UNCHANGED <<host, packaged, artifact, run, forceLibc, libcInfo, libcType,
                 binaryName, copies, copyResult, pkgChanged, fsChanges, launch>>

\* install.js lines 239-245 and 252-256.
RetryMusl ==
  /\ ipc = "retry"
  /\ LET muslBinaryName == replaceGnu(binaryName)
     IN  IF muslBinaryName \notin packaged
         THEN /\ InstallerExits(1)
              /\ UNCHANGED <<artifact, copies, copyResult>>
         ELSE \E o \in copyOutcomes(muslBinaryName) :
                /\ copyResult' = o
                /\ IF o = "copyFail"
                   THEN UNCHANGED <<artifact, copies>>
                   ELSE /\ artifact' = Some([name |-> muslBinaryName, run |-> run])
                        /\ copies' = Append(copies, muslBinaryName)
                /\ IF o # "ok"
                   THEN InstallerExits(1)
                   ELSE ipc' = "retryTest" /\ UNCHANGED instExit
  /\ UNCHANGED <<host, packaged, run, forceLibc, libcInfo, libcType, binaryName,
                 checks, pkgChanged, fsChanges, launch>>

\* install.js lines 247-251.
RetryTest ==
  /\ ipc = "retryTest"
  /\ checks' = Append(checks, [name |-> artifact[1].name, result |-> runArtifact])
  /\ IF testBinary(runArtifact) THEN InstallerExits(0) ELSE InstallerExits(1)
  /\ UNCHANGED <<host, packaged, artifact, run, forceLibc, libcInfo, libcType,
                 binaryName, copies, copyResult, pkgChanged, fsChanges, launch>>

\* Another process adds a file to, or removes one from, bin/<platform>/<arch>/
\* while the Installer runs.
PackageChange ==
  /\ ipc # "idle"
  /\ fsChanges < MaxFsChanges
  /\ \E n \in CatalogNames(platform, arch) :
       packaged' = IF n \in packaged THEN packaged \ {n} ELSE packaged \cup {n}
  /\ pkgChanged' = TRUE
  /\ fsChanges' = fsChanges + 1
  /\ UNCHANGED <<host, artifact, ipc, run, forceLibc, libcInfo, libcType,
                 binaryName, copies, checks, copyResult, instExit, launch>>

LauncherStart_NoCheck ==
  /\ ipc = "idle"
  /\ launcherIdle
  /\ received' = 0
  /\ forwarded' = 0
  /\ pending' = 0
  /\ childExit' = NoExit
  /\ lpc' = "Spawned"
  /\ launcherExit' = None
  /\ child' = "running"
  /\ spawned' = artifact
  /\ UNCHANGED <<host, packaged, artifact, inst>>

\* forge.js lines 12-40, the script's top level: the existence check, the
\* spawn and the registration of the two handlers.
LauncherStart ==
  /\ ipc = "idle"
  /\ launcherIdle
  /\ received' = 0
  /\ forwarded' = 0
  /\ pending' = 0
  /\ childExit' = NoExit
  /\ IF artifact = None
     THEN /\ lpc' = "Exited"
          /\ launcherExit' = Some(1)
          /\ child' = "none"
          /\ spawned' = None
     ELSE /\ lpc' = "Spawned"
          /\ launcherExit' = None
          /\ child' = "running"
          /\ spawned' = artifact
  /\ UNCHANGED <<host, packaged, artifact, inst>>

Sigint_Default ==
  /\ lpc = "Spawned"
  /\ received < MaxSigints
  /\ received' = received + 1
  /\ lpc' = "Exited"
  /\ launcherExit' = Some(130)
  /\ UNCHANGED <<host, packaged, artifact, inst, child, childExit, spawned,
                 forwarded, pending>>

\* forge.js lines 30-34: process.on('SIGINT'), forgeProcess.kill('SIGINT').
Sigint ==
  /\ lpc = "Spawned"
  /\ received < MaxSigints
  /\ received' = received + 1
  /\ forwarded' = forwarded + 1
  /\ pending' = IF child = "running" THEN pending + 1 ELSE pending
  /\ UNCHANGED <<host, packaged, artifact, inst, lpc, child, childExit, spawned,
                 launcherExit>>

\* The child takes a delivered SIGINT: it ignores it, shuts down with an
\* exit code, or is killed by it.
ChildHandlesSigint ==
  /\ child = "running"
  /\ pending > 0
  /\ pending' = pending - 1
  /\ \/ UNCHANGED <<child, childExit>>
     \/ \E c \in ChildCodes :
          /\ child' = "terminated"
          /\ childExit' = [code |-> Some(c), signal |-> None]
     \/ /\ child' = "terminated"
        /\ childExit' = [code |-> None, signal |-> Some("SIGINT")]
  /\ UNCHANGED <<host, packaged, artifact, inst, lpc, spawned, launcherExit,
                 received, forwarded>>

\* The child ends by itself with an exit code, or a signal sent by another
\* process kills it.
ChildTerminates ==
  /\ child = "running"
  /\ child' = "terminated"
  /\ \/ \E c \in ChildCodes : childExit' = [code |-> Some(c), signal |-> None]
     \/ childExit' = [code |-> None, signal |-> Some("SIGKILL")]
  /\ UNCHANGED <<host, packaged, artifact, inst, lpc, spawned, launcherExit,
                 received, forwarded, pending>>

\* forge.js lines 36-40: forgeProcess.on('exit', (code) => process.exit(...)).
ChildExitEvent ==
  /\ lpc = "Spawned"
  /\ child = "terminated"
  /\ lpc' = "Exited"
  /\ launcherExit' = Some(exitCode(childExit.code))
  /\ UNCHANGED <<host, packaged, artifact, inst, child, childExit, spawned,
                 received, forwarded, pending>>

Next ==
  \/ InstallStart
  \/ DetectLibc
  \/ SelectMusl
  \/ CheckAlternative
  \/ CheckBinaryExists
  \/ CopyBinary
  \/ TestBinary
  \/ RetryMusl
  \/ RetryTest
  \/ PackageChange
  \/ LauncherStart
  \/ Sigint
  \/ ChildHandlesSigint
  \/ ChildTerminates
  \/ ChildExitEvent

Spec == Init /\ [][Next]_vars


\* -------------------------------------------------------------- properties

Linux == platform = "linux" /\ arch \in DOMAIN PLATFORMS["linux"]
gnuName == PLATFORMS["linux"][arch]["gnu"]
muslName == PLATFORMS["linux"][arch]["musl"]

\* The last Installer run has ended; lastExit is its exit code.
Done == ipc = "idle" /\ run > 0
lastExit == instExit[Len(instExit)]

\* C1: a child that ends with a numeric exit code c makes the Launcher exit
\* with exactly c, and a Launcher that spawned a child exits only on the
\* child's exit event.
Thm_C1 ==
  /\ lpc = "Spawned" => launcherExit = None
  /\ lpc = "Exited" /\ spawned # None => child = "terminated"
  /\ lpc = "Exited" /\ spawned # None /\ childExit.code # None
       => launcherExit = childExit.code

Wit_C1 ==
  /\ lpc = "Exited"
  /\ spawned # None
  /\ childExit.code = Some(42)
  /\ launcherExit = Some(42)

\* C2: a child that ends without a numeric exit code (a signal killed it)
\* makes the Launcher exit with a non-zero code.
CE_C2 ==
  lpc = "Exited" /\ spawned # None /\ childExit.code = None
    => launcherExit # None /\ launcherExit # Some(0)

\* C3: every SIGINT the Launcher receives is forwarded to the child while
\* the Launcher keeps running, and a Launcher that spawned a child goes from
\* Spawned to Exited only when the child has terminated.
Thm_C3 ==
  [][/\ received' = received + 1
          => /\ forwarded' = forwarded + 1
             /\ lpc' = "Spawned"
             /\ launcherExit' = None
             /\ child = "running" => pending' = pending + 1
     /\ lpc = "NotStarted" /\ lpc' # lpc
          => \/ lpc' = "Spawned" /\ child' = "running"
             \/ lpc' = "Exited" /\ child' = "none"
     /\ lpc = "Spawned" /\ lpc' # lpc
          => lpc' = "Exited" /\ child = "terminated" /\ child' = "terminated"
    ]_vars

Wit_C3 ==
  /\ lpc = "Exited"
  /\ child = "terminated"
  /\ received = 2
  /\ forwarded = 2
  /\ launcherExit # None

\* C4: the Launcher spawns a child only when the artifact file exists; when
\* it does not, the Launcher exits with code 1, spawns nothing, and no
\* Launcher step writes the artifact or selects a packaged binary.
Thm_C4 ==
  /\ [](lpc # "NotStarted" =>
          /\ artifact = None
               => /\ lpc = "Exited"
                  /\ launcherExit = Some(1)
                  /\ child = "none"
                  /\ spawned = None
          /\ child # "none" => artifact # None /\ spawned = artifact)
  /\ [][lpc' # "NotStarted" => UNCHANGED <<artifact, packaged, inst>>]_vars

Wit_C4 ==
  /\ lpc = "Exited"
  /\ artifact = None
  /\ launcherExit = Some(1)
  /\ child = "none"
  /\ run > 0

\* C5: on Linux, with the musl binary packaged (and the packaged binaries
\* left alone during the run), the Installer's candidate and the file it
\* copies are the musl binary, for every detected libc and with or without
\* FORCE_MUSL; the gnu binary is never copied.
Thm_C5 ==
  Linux /\ run > 0 /\ ~pkgChanged /\ muslName \in packaged
    => /\ ipc \in {"checkExists", "copy", "test", "idle"} => binaryName = muslName
       /\ \A i \in 1..Len(copies) : copies[i] = muslName
       /\ ipc \notin {"retry", "retryTest"}
       /\ Done /\ copyResult \in {"ok", "chmodFail"}
            => copies = <<muslName>> /\ artifact = Some([name |-> muslName, run |-> run])

Wit_C5 ==
  /\ Linux /\ Done /\ ~pkgChanged
  /\ packaged = {gnuName, muslName}
  /\ libcType = "gnu"
  /\ forceLibc = ""
  /\ copies = <<muslName>>

\* glibc release order: version major.minor is 2.32 or newer.
AtLeast232(v) == v.major > 2 \/ (v.major = 2 /\ DigitsValue(v.minor) >= 32)

\* C6: a detected glibc version older than 2.32 in release order yields the
\* musl variant, a version 2.32 or newer the gnu variant.
CE_C6 ==
  ipc = "select" /\ libcInfo.type = "gnu" /\ libcInfo.version # None
    => libcType = IF AtLeast232(libcInfo.version[1]) THEN "gnu" ELSE "musl"


\* C7: on Linux the Installer exits 0 only after a passed execution check of
\* the file at the artifact path.  A failed check of a gnu artifact is
\* followed, when the musl binary exists, by a copy of the musl binary and a
\* second check that decides the exit code; a failed check of a musl
\* artifact, and a missing musl binary, end in exit code 1 without a retry.
\* A run makes at most two checks, the second never of a gnu artifact.
Inv_C7 ==
  Linux /\ run > 0 =>
    /\ Len(checks) <= 2
    /\ \A i \in 1..Len(checks) : checks[i].name = copies[i]
    /\ Done /\ lastExit = 0
         => /\ checks # <<>>
            /\ checks[Len(checks)].result = "ok"
            /\ artifact = Some([name |-> checks[Len(checks)].name, run |-> run])
    /\ Len(checks) = 2
         => /\ includesGnu(checks[1].name)
            /\ checks[1].result # "ok"
            /\ checks[2].name = muslName
            /\ Done
            /\ lastExit = 0 <=> checks[2].result = "ok"
    /\ Done /\ checks # <<>> /\ checks[1].result # "ok" /\ ~includesGnu(checks[1].name)
         => lastExit = 1 /\ Len(checks) = 1 /\ Len(copies) = 1
    /\ ipc = "retry"
         => Len(checks) = 1 /\ includesGnu(checks[1].name) /\ checks[1].result # "ok"

Act_C7 ==
  /\ ipc = "test" /\ ipc' # ipc /\ includesGnu(copies[1]) /\ runsOn[copies[1]] # "ok"
       => ipc' = "retry"
  /\ ipc = "retry" /\ ipc' # ipc
       => IF muslName \in packaged
          THEN /\ copyResult' = "ok"
                    => /\ ipc' = "retryTest"
                       /\ artifact' = Some([name |-> muslName, run |-> run])
               /\ copyResult' # "ok" => ipc' = "idle" /\ lastExit' = 1
          ELSE ipc' = "idle" /\ lastExit' = 1 /\ UNCHANGED <<artifact, copies>>
  /\ ipc = "retryTest" /\ ipc' # ipc
       => /\ ipc' = "idle"
          /\ Len(checks') = 2
          /\ lastExit' = IF checks'[2].result = "ok" THEN 0 ELSE 1

Thm_C7 == []Inv_C7 /\ [][Act_C7]_vars

Wit_C7 ==
  /\ Linux /\ Done
  /\ Len(checks) = 2
  /\ checks[1] = [name |-> gnuName, result |-> "glibc"]
  /\ checks[2] = [name |-> muslName, result |-> "ok"]
  /\ lastExit = 0
  /\ artifact = Some([name |-> muslName, run |-> run])

\* C8: the artifact path holds a file only if the Installer run that wrote
\* it ended with exit code 0, so the Launcher never spawns an artifact whose
\* install failed.
CE_C8 ==
  /\ ipc = "idle" /\ artifact # None => instExit[artifact[1].run] = 0
  /\ spawned # None => instExit[spawned[1].run] = 0

\* What a Linux run copies and how it exits, from the packaged binaries, the
\* copy outcome and the host's execution-check results alone.
chosenBinary ==
  IF muslName \in packaged THEN Some(muslName)
  ELSE IF gnuName \in packaged THEN Some(gnuName)
  ELSE None

Thm_C10 ==
  Linux /\ run > 0 /\ ~pkgChanged =>
    /\ Len(copies) <= 1
    /\ Len(checks) <= 1
    /\ ipc # "retryTest"
    /\ ipc \in {"copy", "test", "retry"} /\ includesGnu(binaryName)
         => muslName \notin packaged
    /\ copies # <<>> /\ includesGnu(copies[1]) => muslName \notin packaged
    /\ Done /\ checks # <<>> /\ includesGnu(checks[1].name) /\ checks[1].result # "ok"
         => lastExit = 1

Wit_C10 ==
  /\ Linux /\ Done /\ ~pkgChanged
  /\ copies = <<gnuName>>
  /\ checks = <<[name |-> gnuName, result |-> "glibc"]>>
  /\ lastExit = 1

====
